---- MODULE Spec2Model ----
(***************************************************************************)
(* A model of the Discord client library of this repository:               *)
(*   - WebhookUtils (src/src/Discord/Webhooks.ts), a client bound to one   *)
(*     webhook URL;                                                        *)
(*   - Client (src/src/Discord/Bot.ts, lines 567-968), a client bound to   *)
(*     one bot token, with its generic dispatcher makeRequest, the DM      *)
(*     helpers isDmOpen / openOrGetDm / dm, and downloadImage,             *)
(*     createWebhook and deleteWebhook.                                    *)
(*                                                                         *)
(* A call of an async method is a small process: it runs synchronously up  *)
(* to its first await (the "call" action), and each time the awaited HTTP  *)
(* request settles it runs on to the next await or to its return (the      *)
(* "settle" actions).  The HTTP server is the environment: it answers each *)
(* request with a success or with a failure.  Every request a call issues  *)
(* is recorded, in order, in the call's reqs; everything it prints in log; *)
(* endpoint is makeRequest's parameter, kept while its request is awaited. *)
(***************************************************************************)
EXTENDS Naturals, Sequences, FiniteSets, TLC

VARIABLES
    webhookUrl,   \* WebhookUtils.webhookUrl, or NoInstance
    token,        \* Client.token, or NoInstance
    logging,      \* Client.logging
    calls         \* call slot -> the method call running (or last run) in it

vars == <<webhookUrl, token, logging, calls>>

(***************************************************************************)
(* Bounds of the model.                                                    *)
(***************************************************************************)
MaxCalls == 2     \* call slots (calls that may be in progress together)
MaxLen == 2       \* channels in a fetched DM channel list

Slots == 1..MaxCalls

(***************************************************************************)
(* Values.                                                                 *)
(***************************************************************************)
NoInstance == "<no instance>"
Undefined == "undefined"
Null == "null"
NoBody == [undefined |-> TRUE]
NoHeaders == [Authorization |-> Undefined, ContentType |-> Undefined]
NoError ==
    [name |-> "none", isAxios |-> FALSE, hasResponse |-> FALSE,
     data |-> "", message |-> ""]

\* What axios rejects with: a failure that carries the server's response,
\* and a transport failure that carries none.
HttpError ==
    [name |-> "AxiosError", isAxios |-> TRUE, hasResponse |-> TRUE,
     data |-> "{code: 10003}",
     message |-> "Request failed with status code 404"]
NetError ==
    [name |-> "AxiosError", isAxios |-> TRUE, hasResponse |-> FALSE,
     data |-> "", message |-> "connect ECONNREFUSED"]
AxiosErrors == {HttpError, NetError}

\* What fs.readFileSync throws for a path that does not exist.
ENOENT ==
    [name |-> "ENOENT", isAxios |-> FALSE, hasResponse |-> FALSE,
     data |-> "", message |-> "ENOENT: no such file or directory"]
\* What reading .id of undefined throws.
TypeErr ==
    [name |-> "TypeError", isAxios |-> FALSE, hasResponse |-> FALSE,
     data |-> "",
     message |-> "Cannot read properties of undefined (reading 'id')"]

\* Inputs of the operations.
HookInputs == {"", Undefined, "https://hook/A", "https://hook/B"}
TokenInputs == {"", Undefined, "T"}
\* The optional trailing argument logs of new Client: omitted, true, false.
LogsInputs == {<<>>, <<TRUE>>, <<FALSE>>}
Msgs == {"hello", "bye"}
MessageIds == {"111", "222"}
Paths == {"img/avatar.jpg", "img/missing.png"}
ExistingFiles == {"img/avatar.jpg"}
Names == {"bot", "hook2"}
RateLimits == {0, 5}
Users == {"u1", "u2"}
ChannelIds == {"c1", "c2"}
GuildIds == {"g1", "g2"}
RoleIds == {"r1", "r2"}
Emojis == {"smile", "a b"}
ChannelKinds == {"text", "voice"}
RoleDatas == {[name |-> "admin"], [color |-> 255]}
Datas == {"{ok: 1}", "{ok: 2}"}
CreatedDms == {[id |-> "n1"], [id |-> "n2"]}
Embeds == {[description |-> "e1"], [title |-> "t2", color |-> 255]}
EmbedArrays ==
    {<<>>} \cup {<<e>> : e \in Embeds} \cup {<<e, f>> : e, f \in Embeds}
InfoDatas == {"{id: 1, name: a}", "{id: 2, name: b}"}
WebhookIds == {"w1", "w2"}
WebhookImages == {"data:image/png;base64,AAAA"}
CreatedWebhooks == {[id |-> "w1", token |-> "k1"], [id |-> "w2", token |-> "k2"]}
ImageUrls == {"https://cdn/a.jpg", "https://cdn/b.jpg"}
ImageDatas == {"<bytes 1>", "<bytes 2>"}

(***************************************************************************)
(* Promises, requests, calls.                                              *)
(***************************************************************************)
Pending == [kind |-> "pending", value |-> "", error |-> NoError]
NoPromise == [kind |-> "none", value |-> "", error |-> NoError]
Resolved(v) == [kind |-> "resolved", value |-> v, error |-> NoError]
Rejected(e) == [kind |-> "rejected", value |-> "", error |-> e]

\* An HTTP request as handed to axios; status is "inflight" until it settles.
Req(method, url, body, headers) ==
    [method |-> method, url |-> url, body |-> body, headers |-> headers,
     status |-> "inflight", data |-> "", error |-> NoError]

\* The environment's answer to a request.
Ok(d) == [ok |-> TRUE, data |-> d, status |-> "200", statusText |-> "OK"]
Fail(e) == [ok |-> FALSE, error |-> e]
Outcomes(datas) == {Ok(d) : d \in datas} \cup {Fail(e) : e \in AxiosErrors}

IdleCall ==
    [op |-> "none", args |-> <<>>, pc |-> "idle", reqs |-> <<>>,
     result |-> NoPromise, floating |-> NoPromise, log |-> <<>>,
     endpoint |-> ""]
NewCall(op, args) ==
    [op |-> op, args |-> args, pc |-> "running", reqs |-> <<>>,
     result |-> Pending, floating |-> NoPromise, log |-> <<>>,
     endpoint |-> ""]

\* axios(...) is called: the request is issued and the call waits at `at`.
Issue(call, req, at) ==
    [call EXCEPT !.reqs = Append(@, req), !.pc = at]
\* The last request issued settles with the environment's answer.
Settle(call, out) ==
    [call EXCEPT !.reqs[Len(call.reqs)] =
        IF out.ok THEN [@ EXCEPT !.status = "ok", !.data = out.data]
        ELSE [@ EXCEPT !.status = "fail", !.error = out.error]]
Log(call, line) == [call EXCEPT !.log = Append(@, line)]
Return(call, v) == [call EXCEPT !.result = Resolved(v), !.pc = "done"]
Throw(call, e) == [call EXCEPT !.result = Rejected(e), !.pc = "done"]

\* A slot is free for a new call when nothing of its last call is pending.
CanStart(c) ==
    /\ calls[c].pc \in {"idle", "done"}
    /\ calls[c].floating.kind # "pending"
At(c, op, pc) == calls[c].op = op /\ calls[c].pc = pc

(***************************************************************************)
(* Local files.                                                            *)
(***************************************************************************)
\* fs.readFileSync(path): the bytes of the file.
FileBytes(p) == CASE p = "img/avatar.jpg" -> "hi" [] OTHER -> ""
\* path.basename(path)
basename(p) ==
    CASE p = "img/avatar.jpg" -> "avatar.jpg"
      [] p = "img/missing.png" -> "missing.png"
      [] OTHER -> p
\* Buffer.toString('base64')
base64(bytes) == CASE bytes = "hi" -> "aGk=" [] OTHER -> ""
\* fs.statSync(path).size, printed
FileSize(p) == CASE p = "img/avatar.jpg" -> "2" [] OTHER -> "0"

(***************************************************************************)
(* WebhookUtils                                                            *)
(***************************************************************************)
\* constructor(hook): throws on an empty or missing hook, else stores it.
NoWebhookError ==
    [name |-> "Error", isAxios |-> FALSE, hasResponse |-> FALSE,
     data |-> "", message |-> "No webhook URL provided"]
WebhookUtilsCtor(hook) ==
    IF hook \in {"", Undefined}
    THEN [threw |-> TRUE, webhookUrl |-> NoInstance]
    ELSE [threw |-> FALSE, webhookUrl |-> hook]
\* new WebhookUtils(hook), as the call it is: it returned or it threw.
WebhookUtilsNew(hook) ==
    LET call == NewCall("new WebhookUtils", [hook |-> hook])
    IN  IF WebhookUtilsCtor(hook).threw
        THEN Throw(call, NoWebhookError)
        ELSE Return(call, Undefined)

HasWebhook == webhookUrl # NoInstance

WebhookFrame == UNCHANGED <<webhookUrl, token, logging>>

\* ---- sendMessage(message)
sendMessageCall(hook, message) ==
    Issue(NewCall("sendMessage", [message |-> message]),
          Req("post", hook, [content |-> message], NoHeaders), "await")
\* A faulty variant: a failed POST is issued again.
sendMessageResume_retry(call, out) ==
    IF out.ok
    THEN Return(Settle(call, out), Undefined)
    ELSE Issue(Settle(call, out),
               Req("post", call.reqs[1].url, call.reqs[1].body, NoHeaders),
               "await")
sendMessageResume(call, out) ==
    IF out.ok
    THEN Return(Log(Settle(call, out),
                    "Message sent successfully. Status: " \o out.status
                        \o " - " \o out.statusText),
                Undefined)
    ELSE Return(Log(Settle(call, out),
                    "Error sending message. Status: " \o out.error.message),
                Undefined)

sendMessage(c) ==
    /\ HasWebhook /\ CanStart(c)
    /\ \E m \in Msgs :
           calls' = [calls EXCEPT ![c] = sendMessageCall(webhookUrl, m)]
    /\ WebhookFrame
sendMessageSettle(c) ==
    /\ At(c, "sendMessage", "await")
    /\ \E out \in Outcomes({""}) :
           calls' = [calls EXCEPT ![c] = sendMessageResume(calls[c], out)]
    /\ WebhookFrame

\* ---- sendFile(message, filePath)
sendFileForm(message, filePath) ==
    [form |-> <<[field |-> "file", value |-> FileBytes(filePath),
                 filename |-> basename(filePath)],
                [field |-> "content", value |-> message, filename |-> ""]>>]
\* A faulty variant: the file is read outside the try, as in updateWebhook.
sendFileCall_readOutsideTry(hook, message, filePath) ==
    LET call == NewCall("sendFile",
                        [message |-> message, filePath |-> filePath])
    IN  IF filePath \notin ExistingFiles
        THEN Throw(call, ENOENT)
        ELSE Issue(call,
                   Req("post", hook, sendFileForm(message, filePath),
                       NoHeaders),
                   "await")
sendFileCall(hook, message, filePath) ==
    LET call == NewCall("sendFile",
                        [message |-> message, filePath |-> filePath])
    IN  IF filePath \notin ExistingFiles
        THEN \* readFileSync throws inside the try: caught, printed
             Return(Log(call, "Error sending file to Discord: "
                                  \o ENOENT.message),
                    Undefined)
        ELSE Issue(Log(call, "File size: " \o FileSize(filePath) \o " bytes"),
                   Req("post", hook, sendFileForm(message, filePath),
                       [Authorization |-> Undefined,
                        ContentType |-> "multipart/form-data"]),
                   "await")
sendFileResume(call, out) ==
    IF out.ok
    THEN Return(Log(Settle(call, out),
                    "Webhook status: " \o out.status \o " - "
                        \o out.statusText),
                Undefined)
    ELSE Return(Log(Settle(call, out),
                    "Error sending file to Discord: " \o out.error.message),
                Undefined)

sendFile(c) ==
    /\ HasWebhook /\ CanStart(c)
    /\ \E m \in Msgs, p \in Paths :
           calls' = [calls EXCEPT ![c] = sendFileCall(webhookUrl, m, p)]
    /\ WebhookFrame
sendFileSettle(c) ==
    /\ At(c, "sendFile", "await")
    /\ \E out \in Outcomes({""}) :
           calls' = [calls EXCEPT ![c] = sendFileResume(calls[c], out)]
    /\ WebhookFrame

\* ---- updateWebhook(imagePath, newName)
updateWebhookCall(hook, imagePath, newName) ==
    LET call == NewCall("updateWebhook",
                        [imagePath |-> imagePath, newName |-> newName])
    IN  IF imagePath \notin ExistingFiles
        THEN \* readFileSync throws before the try
             Throw(call, ENOENT)
        ELSE Issue(call,
                   Req("patch", hook,
                       [avatar |-> "data:image/jpeg;base64,"
                                       \o base64(FileBytes(imagePath))],
                       NoHeaders),
                   "awaitAvatar")
\* A faulty variant: the name PATCH is sent whatever became of the avatar
\* PATCH.
updateWebhookAvatarResume_continue(call, out, hook) ==
    Issue(Settle(call, out),
          Req("patch", hook, [name |-> call.args.newName], NoHeaders),
          "awaitName")
updateWebhookAvatarResume(call, out, hook) ==
    IF out.ok
    THEN Issue(Settle(call, out),
               Req("patch", hook, [name |-> call.args.newName], NoHeaders),
               "awaitName")
    ELSE Return(Log(Settle(call, out),
                    "Error updating webhook: " \o out.error.message),
                Undefined)
updateWebhookNameResume(call, out) ==
    IF out.ok
    THEN Return(Log(Settle(call, out), "Webhook updated successfully!"),
                Undefined)
    ELSE Return(Log(Settle(call, out),
                    "Error updating webhook: " \o out.error.message),
                Undefined)

updateWebhook(c) ==
    /\ HasWebhook /\ CanStart(c)
    /\ \E p \in Paths, n \in Names :
           calls' = [calls EXCEPT ![c] = updateWebhookCall(webhookUrl, p, n)]
    /\ WebhookFrame
updateWebhookAvatarSettle(c) ==
    /\ At(c, "updateWebhook", "awaitAvatar")
    /\ \E out \in Outcomes({""}) :
           calls' = [calls EXCEPT ![c] =
                        updateWebhookAvatarResume(calls[c], out, webhookUrl)]
    /\ WebhookFrame
updateWebhookNameSettle(c) ==
    /\ At(c, "updateWebhook", "awaitName")
    /\ \E out \in Outcomes({""}) :
           calls' = [calls EXCEPT ![c] =
                        updateWebhookNameResume(calls[c], out)]
    /\ WebhookFrame

\* ---- deleteMessage(messageId)
\* A faulty variant: the DELETE goes to the bare webhook URL.
deleteMessageCall_bare(hook, messageId) ==
    Issue(NewCall("deleteMessage", [messageId |-> messageId]),
          Req("delete", hook, NoBody, NoHeaders), "await")
deleteMessageCall(hook, messageId) ==
    Issue(NewCall("deleteMessage", [messageId |-> messageId]),
          Req("delete", hook \o "/messages/" \o messageId, NoBody, NoHeaders),
          "await")
deleteMessageResume(call, out) ==
    IF out.ok
    THEN Return(Log(Settle(call, out),
                    "Message deleted: " \o out.status \o " - "
                        \o out.statusText),
                Undefined)
    ELSE Return(Log(Settle(call, out),
                    "Error deleting message: " \o out.error.message),
                Undefined)

deleteMessage(c) ==
    /\ HasWebhook /\ CanStart(c)
    /\ \E id \in MessageIds :
           calls' = [calls EXCEPT ![c] = deleteMessageCall(webhookUrl, id)]
    /\ WebhookFrame
deleteMessageSettle(c) ==
    /\ At(c, "deleteMessage", "await")
    /\ \E out \in Outcomes({""}) :
           calls' = [calls EXCEPT ![c] = deleteMessageResume(calls[c], out)]
    /\ WebhookFrame

\* ---- deleteAllMessages()
deleteAllMessagesCall(hook) ==
    Issue(NewCall("deleteAllMessages", <<>>),
          Req("delete", hook, NoBody, NoHeaders), "await")
deleteAllMessagesResume(call, out) ==
    IF out.ok
    THEN Return(Log(Settle(call, out),
                    "All messages deleted: " \o out.status \o " - "
                        \o out.statusText),
                Undefined)
    ELSE Return(Log(Settle(call, out),
                    "Error deleting all messages: " \o out.error.message),
                Undefined)

deleteAllMessages(c) ==
    /\ HasWebhook /\ CanStart(c)
    /\ calls' = [calls EXCEPT ![c] = deleteAllMessagesCall(webhookUrl)]
    /\ WebhookFrame
deleteAllMessagesSettle(c) ==
    /\ At(c, "deleteAllMessages", "await")
    /\ \E out \in Outcomes({""}) :
           calls' = [calls EXCEPT ![c] =
                        deleteAllMessagesResume(calls[c], out)]
    /\ WebhookFrame

\* ---- sendSimpleEmbed(content)
sendSimpleEmbedCall(hook, content) ==
    LET simpleEmbed == [description |-> content]
    IN  Issue(NewCall("sendSimpleEmbed", [content |-> content]),
              Req("post", hook, [embeds |-> <<simpleEmbed>>], NoHeaders),
              "await")
sendSimpleEmbedResume(call, out) ==
    IF out.ok
    THEN Return(Log(Settle(call, out),
                    "Simple embed sent: " \o out.status \o " - "
                        \o out.statusText),
                Undefined)
    ELSE Return(Log(Settle(call, out),
                    "Error sending simple embed: " \o out.error.message),
                Undefined)

sendSimpleEmbed(c) ==
    /\ HasWebhook /\ CanStart(c)
    /\ \E m \in Msgs :
           calls' = [calls EXCEPT ![c] = sendSimpleEmbedCall(webhookUrl, m)]
    /\ WebhookFrame
sendSimpleEmbedSettle(c) ==
    /\ At(c, "sendSimpleEmbed", "await")
    /\ \E out \in Outcomes({""}) :
           calls' = [calls EXCEPT ![c] = sendSimpleEmbedResume(calls[c], out)]
    /\ WebhookFrame

\* ---- sendMultipleEmbeds(embedArray)
\* A faulty variant: the embeds are posted in reverse order.
sendMultipleEmbedsCall_reversed(hook, embedArray) ==
    Issue(NewCall("sendMultipleEmbeds", [embedArray |-> embedArray]),
          Req("post", hook,
              [embeds |-> [i \in 1..Len(embedArray) |->
                              embedArray[Len(embedArray) + 1 - i]]],
              NoHeaders),
          "await")
sendMultipleEmbedsCall(hook, embedArray) ==
    Issue(NewCall("sendMultipleEmbeds", [embedArray |-> embedArray]),
          Req("post", hook, [embeds |-> embedArray], NoHeaders), "await")
sendMultipleEmbedsResume(call, out) ==
    IF out.ok
    THEN Return(Log(Settle(call, out),
                    "Multiple embeds sent in a single message: "
                        \o out.status \o " - " \o out.statusText),
                Undefined)
    ELSE Return(Log(Settle(call, out),
                    "Error sending multiple embeds: " \o out.error.message),
                Undefined)

sendMultipleEmbeds(c) ==
    /\ HasWebhook /\ CanStart(c)
    /\ \E arr \in EmbedArrays :
           calls' = [calls EXCEPT ![c] =
                        sendMultipleEmbedsCall(webhookUrl, arr)]
    /\ WebhookFrame
sendMultipleEmbedsSettle(c) ==
    /\ At(c, "sendMultipleEmbeds", "await")
    /\ \E out \in Outcomes({""}) :
           calls' = [calls EXCEPT ![c] =
                        sendMultipleEmbedsResume(calls[c], out)]
    /\ WebhookFrame

\* ---- info()
webhookInfoCall(hook) ==
    Issue(NewCall("webhook.info", <<>>),
          Req("get", hook, NoBody, NoHeaders), "await")
\* A faulty variant: info prints a failure and returns normally.
webhookInfoResume_swallow(call, out) ==
    IF out.ok
    THEN Return(Settle(call, out), out.data)
    ELSE Return(Log(Settle(call, out),
                    "Error fetching webhook information: "
                        \o out.error.message),
                Undefined)
webhookInfoResume(call, out) ==
    IF out.ok
    THEN Return(Log(Settle(call, out),
                    "Webhook information fetched: " \o out.status \o " - "
                        \o out.statusText),
                out.data)
    ELSE Throw(Log(Settle(call, out),
                   "Error fetching webhook information: "
                       \o out.error.message),
               out.error)

webhookInfo(c) ==
    /\ HasWebhook /\ CanStart(c)
    /\ calls' = [calls EXCEPT ![c] = webhookInfoCall(webhookUrl)]
    /\ WebhookFrame
webhookInfoSettle(c) ==
    /\ At(c, "webhook.info", "await")
    /\ \E out \in Outcomes(InfoDatas) :
           calls' = [calls EXCEPT ![c] = webhookInfoResume(calls[c], out)]
    /\ WebhookFrame

\* ---- setRateLimit(rateLimitPerUser)   (private)
setRateLimitCall(hook, rateLimitPerUser) ==
    Issue(NewCall("setRateLimit", [rateLimitPerUser |-> rateLimitPerUser]),
          Req("patch", hook, [rate_limit_per_user |-> rateLimitPerUser],
              NoHeaders),
          "await")
setRateLimitResume(call, out) ==
    IF out.ok
    THEN Return(Settle(call, out), Undefined)
    ELSE Return(Log(Settle(call, out), out.error.message), Undefined)

setRateLimit(c) ==
    /\ HasWebhook /\ CanStart(c)
    /\ \E r \in RateLimits :
           calls' = [calls EXCEPT ![c] = setRateLimitCall(webhookUrl, r)]
    /\ WebhookFrame
setRateLimitSettle(c) ==
    /\ At(c, "setRateLimit", "await")
    /\ \E out \in Outcomes({""}) :
           calls' = [calls EXCEPT ![c] = setRateLimitResume(calls[c], out)]
    /\ WebhookFrame

\* ---- setWebhookOwner(userID)   (private; no try/catch)
setWebhookOwnerCall(hook, userID) ==
    Issue(NewCall("setWebhookOwner", [userID |-> userID]),
          Req("patch", hook, [owner_id |-> userID], NoHeaders), "await")
setWebhookOwnerResume(call, out) ==
    IF out.ok
    THEN Return(Settle(call, out), Undefined)
    ELSE Throw(Settle(call, out), out.error)

setWebhookOwner(c) ==
    /\ HasWebhook /\ CanStart(c)
    /\ \E u \in Users :
           calls' = [calls EXCEPT ![c] = setWebhookOwnerCall(webhookUrl, u)]
    /\ WebhookFrame
setWebhookOwnerSettle(c) ==
    /\ At(c, "setWebhookOwner", "await")
    /\ \E out \in Outcomes({""}) :
           calls' = [calls EXCEPT ![c] = setWebhookOwnerResume(calls[c], out)]
    /\ WebhookFrame

(***************************************************************************)
(* The webhook client used by one caller, one call after the other.        *)
(***************************************************************************)
InitWebhook ==
    /\ \E hook \in HookInputs :
           /\ webhookUrl = WebhookUtilsCtor(hook).webhookUrl
           /\ calls = [c \in Slots |-> IF c = 1 THEN WebhookUtilsNew(hook)
                                       ELSE IdleCall]
    /\ token = NoInstance
    /\ logging = FALSE

NextWebhook ==
    \/ sendMessage(1) \/ sendMessageSettle(1)
    \/ sendFile(1) \/ sendFileSettle(1)
    \/ updateWebhook(1) \/ updateWebhookAvatarSettle(1)
    \/ updateWebhookNameSettle(1)
    \/ deleteMessage(1) \/ deleteMessageSettle(1)
    \/ deleteAllMessages(1) \/ deleteAllMessagesSettle(1)
    \/ sendSimpleEmbed(1) \/ sendSimpleEmbedSettle(1)
    \/ sendMultipleEmbeds(1) \/ sendMultipleEmbedsSettle(1)
    \/ webhookInfo(1) \/ webhookInfoSettle(1)
    \/ setRateLimit(1) \/ setRateLimitSettle(1)
    \/ setWebhookOwner(1) \/ setWebhookOwnerSettle(1)

SpecWebhook == InitWebhook /\ [][NextWebhook]_vars

(***************************************************************************)
(* Client (the bot client)                                                 *)
(***************************************************************************)
\* constructor(token, logs = false): stores the token; the logging flag is
\* left alone when true and set to true when false.
\* A faulty variant: the flag is stored as given.
ClientCtor_asGiven(tok, logs) == [token |-> tok, logging |-> logs]
ClientCtor(tok, logs) ==
    [token |-> tok,
     logging |-> IF logs = TRUE THEN logs
                 ELSE IF logs = FALSE THEN TRUE ELSE logs]

\* new Client(token, ...logs), as the call it is; logs defaults to false.
\* With logs false it prints that logs are enabled by default.
ClientLogs(rest) == IF rest = <<>> THEN FALSE ELSE rest[1]
ClientNew(tok, rest) ==
    LET call == NewCall("new Client",
                        IF rest = <<>> THEN [token |-> tok]
                        ELSE [token |-> tok, logs |-> rest[1]])
    IN  Return(IF ClientLogs(rest) = FALSE
               THEN Log(call, "LOGS - logs are enabled by default")
               ELSE call,
               Undefined)

HasClient == token # NoInstance

\* A faulty variant: an operation switches the logging flag off.
BotFrame_resetsLogging == logging' = FALSE /\ UNCHANGED <<webhookUrl, token>>
BotFrame == UNCHANGED <<webhookUrl, token, logging>>

BaseV10 == "https://discord.com/api/v10"
DmChannelsUrl == "https://discord.com/api/v9/users/@me/channels"

\* A faulty variant: the token is sent without the Bot prefix.
BotAuth_bare(tok) == [Authorization |-> tok, ContentType |-> Undefined]
BotAuth(tok) == [Authorization |-> "Bot " \o tok, ContentType |-> Undefined]

\* error.response?.data || error.message
ErrText(e) == IF e.hasResponse /\ e.data # "" THEN e.data ELSE e.message

\* encodeURIComponent(emoji)
encodeURIComponent(x) ==
    CASE x = "smile" -> "smile"
      [] x = "a b" -> "a%20b"
      [] OTHER -> x

\* A faulty variant: the dispatcher targets the v9 base URL without the
\* Bot prefix in the Authorization header.
makeRequest_v9(tok, endpoint, method, data) ==
    Req(method, "https://discord.com/api/v9" \o endpoint, data,
        [Authorization |-> tok, ContentType |-> "application/json"])

\* A faulty variant: the dispatcher prints a failure and returns normally.
makeRequestResume_swallow(out, endpoint, logs) ==
    IF out.ok
    THEN [promise |-> Resolved(out.data), log |-> <<>>]
    ELSE [promise |-> Resolved(Undefined),
          log |-> <<"Discord API Error: " \o ErrText(out.error)>>]

\* ---- makeRequest(endpoint, method, data): the generic dispatcher
makeRequest(tok, endpoint, method, data) ==
    Req(method, BaseV10 \o endpoint, data,
        [Authorization |-> "Bot " \o tok,
         ContentType |-> "application/json"])

\* What makeRequest does when its request settles: the promise it returns
\* and the lines it prints.
makeRequestResume(out, endpoint, logs) ==
    IF out.ok
    THEN [promise |-> Resolved(out.data),
          log |-> IF logs THEN <<"response sent to endpoint: " \o endpoint>>
                  ELSE <<>>]
    ELSE [promise |-> Rejected(out.error),
          log |-> <<(IF out.error.isAxios THEN "Discord API Error: "
                     ELSE "Axios Error: ") \o ErrText(out.error)>>]

\* A public one-line forwarder: return this.makeRequest(...)
Forward(op, args, tok, endpoint, method, data) ==
    Issue([NewCall(op, args) EXCEPT !.endpoint = endpoint],
          makeRequest(tok, endpoint, method, data), "awaitDispatch")
\* A faulty variant: the forwarder awaits makeRequest and drops its value.
ForwardResume_void(call, out, logs) ==
    LET r == makeRequestResume(out, call.endpoint, logs)
    IN  [Settle(call, out) EXCEPT
             !.result = IF r.promise.kind = "resolved"
                        THEN Resolved(Undefined) ELSE r.promise,
             !.pc = "done", !.log = @ \o r.log]
\* A faulty variant: a failed request is issued once more.
ForwardResume_retry(call, out, logs) ==
    LET r == makeRequestResume(out, call.endpoint, logs)
    IN  IF ~out.ok /\ Len(call.reqs) = 1
        THEN Issue(Settle(call, out),
                   Req(call.reqs[1].method, call.reqs[1].url,
                       call.reqs[1].body, call.reqs[1].headers),
                   "awaitDispatch")
        ELSE [Settle(call, out) EXCEPT !.result = r.promise, !.pc = "done",
                                        !.log = @ \o r.log]
ForwardResume(call, out, logs) ==
    LET r == makeRequestResume(out, call.endpoint, logs)
    IN  [Settle(call, out) EXCEPT !.result = r.promise, !.pc = "done",
                                   !.log = @ \o r.log]

botSendMessageCall(tok, channelId, content) ==
    Forward("bot.sendMessage", [channelId |-> channelId, content |-> content],
            tok, "/channels/" \o channelId \o "/messages", "post",
            [content |-> content])
getUserCall(tok, userId) ==
    Forward("bot.getUser", [userId |-> userId],
            tok, "/users/" \o userId, "get", NoBody)
getGuildCall(tok, guildId) ==
    Forward("bot.getGuild", [guildId |-> guildId],
            tok, "/guilds/" \o guildId, "get", NoBody)
createChannelCall(tok, guildId, name, type) ==
    Forward("bot.createChannel",
            [guildId |-> guildId, name |-> name, type |-> type],
            tok, "/guilds/" \o guildId \o "/channels", "post",
            [name |-> name, type |-> type])
kickMemberCall(tok, guildId, userId) ==
    Forward("bot.kickMember", [guildId |-> guildId, userId |-> userId],
            tok, "/guilds/" \o guildId \o "/members/" \o userId, "delete",
            NoBody)
getChannelMessagesCall(tok, channelId) ==
    Forward("bot.getChannelMessages", [channelId |-> channelId],
            tok, "/channels/" \o channelId \o "/messages", "get", NoBody)
addReactionCall(tok, channelId, messageId, emoji) ==
    Forward("bot.addReaction",
            [channelId |-> channelId, messageId |-> messageId,
             emoji |-> emoji],
            tok,
            "/channels/" \o channelId \o "/messages/" \o messageId
                \o "/reactions/" \o encodeURIComponent(emoji) \o "/@me",
            "put", NoBody)
removeReactionCall(tok, channelId, messageId, emoji, userId) ==
    Forward("bot.removeReaction",
            [channelId |-> channelId, messageId |-> messageId,
             emoji |-> emoji, userId |-> userId],
            tok,
            "/channels/" \o channelId \o "/messages/" \o messageId
                \o "/reactions/" \o encodeURIComponent(emoji) \o "/"
                \o userId,
            "delete", NoBody)
editMessageCall(tok, channelId, messageId, content) ==
    Forward("bot.editMessage",
            [channelId |-> channelId, messageId |-> messageId,
             content |-> content],
            tok, "/channels/" \o channelId \o "/messages/" \o messageId,
            "put", [content |-> content])
getMembersCall(tok, guildId) ==
    Forward("bot.getMembers", [guildId |-> guildId],
            tok, "/guilds/" \o guildId \o "/members", "get", NoBody)
botDeleteMessageCall(tok, channelId, messageId) ==
    Forward("bot.deleteMessage",
            [channelId |-> channelId, messageId |-> messageId],
            tok, "/channels/" \o channelId \o "/messages/" \o messageId,
            "delete", NoBody)
editRoleCall(tok, guildId, roleId, data) ==
    Forward("bot.editRole",
            [guildId |-> guildId, roleId |-> roleId, data |-> data],
            tok, "/guilds/" \o guildId \o "/roles/" \o roleId, "patch", data)
botInfoCall(tok) ==
    Forward("bot.info", <<>>, tok, "/users/@me", "get", NoBody)
leaveGuildCall(tok, guildId) ==
    Forward("bot.leaveGuild", [guildId |-> guildId],
            tok, "/users/@me/guilds/" \o guildId, "delete", NoBody)

botSendMessage(c) ==
    /\ HasClient /\ CanStart(c)
    /\ \E ch \in ChannelIds, m \in Msgs :
           calls' = [calls EXCEPT ![c] =
                        botSendMessageCall(token, ch, m)]
    /\ BotFrame
getUser(c) ==
    /\ HasClient /\ CanStart(c)
    /\ \E u \in Users :
           calls' = [calls EXCEPT ![c] =
                        getUserCall(token, u)]
    /\ BotFrame
getGuild(c) ==
    /\ HasClient /\ CanStart(c)
    /\ \E g \in GuildIds :
           calls' = [calls EXCEPT ![c] =
                        getGuildCall(token, g)]
    /\ BotFrame
createChannel(c) ==
    /\ HasClient /\ CanStart(c)
    /\ \E g \in GuildIds, n \in Names, k \in ChannelKinds :
           calls' = [calls EXCEPT ![c] =
                        createChannelCall(token, g, n, k)]
    /\ BotFrame
kickMember(c) ==
    /\ HasClient /\ CanStart(c)
    /\ \E g \in GuildIds, u \in Users :
           calls' = [calls EXCEPT ![c] =
                        kickMemberCall(token, g, u)]
    /\ BotFrame
getChannelMessages(c) ==
    /\ HasClient /\ CanStart(c)
    /\ \E ch \in ChannelIds :
           calls' = [calls EXCEPT ![c] =
                        getChannelMessagesCall(token, ch)]
    /\ BotFrame
addReaction(c) ==
    /\ HasClient /\ CanStart(c)
    /\ \E ch \in ChannelIds, m \in MessageIds, e \in Emojis :
           calls' = [calls EXCEPT ![c] =
                        addReactionCall(token, ch, m, e)]
    /\ BotFrame
removeReaction(c) ==
    /\ HasClient /\ CanStart(c)
    /\ \E ch \in ChannelIds, m \in MessageIds, e \in Emojis, u \in Users :
           calls' = [calls EXCEPT ![c] =
                        removeReactionCall(token, ch, m, e, u)]
    /\ BotFrame
editMessage(c) ==
    /\ HasClient /\ CanStart(c)
    /\ \E ch \in ChannelIds, m \in MessageIds, t \in Msgs :
           calls' = [calls EXCEPT ![c] =
                        editMessageCall(token, ch, m, t)]
    /\ BotFrame
getMembers(c) ==
    /\ HasClient /\ CanStart(c)
    /\ \E g \in GuildIds :
           calls' = [calls EXCEPT ![c] =
                        getMembersCall(token, g)]
    /\ BotFrame
botDeleteMessage(c) ==
    /\ HasClient /\ CanStart(c)
    /\ \E ch \in ChannelIds, m \in MessageIds :
           calls' = [calls EXCEPT ![c] =
                        botDeleteMessageCall(token, ch, m)]
    /\ BotFrame
editRole(c) ==
    /\ HasClient /\ CanStart(c)
    /\ \E g \in GuildIds, r \in RoleIds, d \in RoleDatas :
           calls' = [calls EXCEPT ![c] =
                        editRoleCall(token, g, r, d)]
    /\ BotFrame
botInfo(c) ==
    /\ HasClient /\ CanStart(c)
    /\ calls' = [calls EXCEPT ![c] = botInfoCall(token)]
    /\ BotFrame
leaveGuild(c) ==
    /\ HasClient /\ CanStart(c)
    /\ \E g \in GuildIds :
           calls' = [calls EXCEPT ![c] =
                        leaveGuildCall(token, g)]
    /\ BotFrame

\* The request of a forwarder settles: makeRequest returns or rethrows, and
\* the forwarder's promise follows it.
makeRequestSettle(c) ==
    /\ calls[c].pc = "awaitDispatch"
    /\ \E out \in Outcomes(Datas) :
           calls' = [calls EXCEPT ![c] = ForwardResume(calls[c], out, logging)]
    /\ BotFrame

(***************************************************************************)
(* The DM helpers.                                                         *)
(***************************************************************************)
DmType == 1
\* Any other channel type (3 is a group DM).
OtherTypes == {3}

\* A channel of the fetched list: recipients holds the recipients' ids.
RecipientLists ==
    {<<>>} \cup {<<u>> : u \in Users}
        \cup {p \in {<<u, v>> : u \in Users, v \in Users} : p[1] # p[2]}
AllChannels ==
    [id : ChannelIds, type : {DmType} \cup OtherTypes,
     recipients : RecipientLists]
\* Channels covering each outcome of the scan: a DM with each user, a group
\* DM, a DM listing a second user first, a DM without recipients.
SomeChannels ==
    {[id |-> "c1", type |-> DmType, recipients |-> <<"u1">>],
     [id |-> "c2", type |-> DmType, recipients |-> <<"u2", "u1">>],
     [id |-> "c1", type |-> 3, recipients |-> <<"u1", "u2">>],
     [id |-> "c2", type |-> DmType, recipients |-> <<>>]}
\* The lists of exactly n, and of at most MaxLen, of these channels.
RECURSIVE ListsOfLen(_, _)
ListsOfLen(channels, n) ==
    IF n = 0 THEN {<<>>}
    ELSE {Append(L, ch) : L \in ListsOfLen(channels, n - 1), ch \in channels}
ListsOf(channels) == UNION {ListsOfLen(channels, n) : n \in 0..MaxLen}

LookupOutcomes(channels) ==
    {Ok(L) : L \in ListsOf(channels)} \cup {Fail(e) : e \in AxiosErrors}

\* response.data.find(channel => channel.type === 1 &&
\*                               channel.recipients[0].id === userId)
\* from position i on: the index found (0: none), or threw when the
\* predicate reads .id of a missing first recipient.
\* A faulty variant: the scan does not look at the channel type.
RECURSIVE find_anyType(_, _, _)
find_anyType(L, userId, i) ==
    IF i > Len(L)
    THEN [threw |-> FALSE, index |-> 0]
    ELSE IF Len(L[i].recipients) = 0
    THEN [threw |-> TRUE, index |-> 0]
    ELSE IF L[i].recipients[1] = userId
    THEN [threw |-> FALSE, index |-> i]
    ELSE find_anyType(L, userId, i + 1)
RECURSIVE find(_, _, _)
find(L, userId, i) ==
    IF i > Len(L)
    THEN [threw |-> FALSE, index |-> 0]
    ELSE IF L[i].type # DmType
    THEN find(L, userId, i + 1)
    ELSE IF Len(L[i].recipients) = 0
    THEN [threw |-> TRUE, index |-> 0]
    ELSE IF L[i].recipients[1] = userId
    THEN [threw |-> FALSE, index |-> i]
    ELSE find(L, userId, i + 1)

\* if (existingChannelId)
Truthy(v) == v \notin {Null, Undefined, ""}

lookupRequest(tok) == Req("get", DmChannelsUrl, NoBody, BotAuth(tok))
createDmRequest(tok, userId) ==
    Req("post", DmChannelsUrl, [recipient_id |-> userId], BotAuth(tok))

\* The helpers below run inside one call; each yields the call as it leaves
\* it and the promise of the helper (Pending while it awaits a request).

\* isDmOpen, from the answer to its GET on.
isDmOpenResume(call, out, userId) ==
    IF ~out.ok
    THEN [call |-> Log(Settle(call, out),
                       "Error checking DM: " \o ErrText(out.error)),
          promise |-> Rejected(out.error)]
    ELSE LET dmChannel == find(out.data, userId, 1)
         IN  IF dmChannel.threw
             THEN [call |-> Log(Settle(call, out),
                                "Error checking DM: " \o ErrText(TypeErr)),
                   promise |-> Rejected(TypeErr)]
             ELSE [call |-> Settle(call, out),
                   promise |-> Resolved(IF dmChannel.index # 0
                                        THEN out.data[dmChannel.index].id
                                        ELSE Null)]

\* A faulty variant: the channel is created whatever the lookup returned.
openOrGetDmResumeLookup_alwaysCreate(call, out, tok, userId) ==
    LET r == isDmOpenResume(call, out, userId)
    IN  IF r.promise.kind = "rejected"
        THEN [call |-> Log(r.call, "Error opening DM: "
                                       \o ErrText(r.promise.error)),
              promise |-> Rejected(r.promise.error)]
        ELSE [call |-> Issue(r.call, createDmRequest(tok, userId),
                             "awaitCreate"),
              promise |-> Pending]

\* A faulty variant: a failed lookup is taken for "no DM channel", and the
\* channel is created.
openOrGetDmResumeLookup_failAsNone(call, out, tok, userId) ==
    LET r == isDmOpenResume(call, out, userId)
    IN  IF r.promise.kind = "resolved" /\ Truthy(r.promise.value)
        THEN [call |-> r.call, promise |-> Resolved(r.promise.value)]
        ELSE [call |-> Issue(r.call, createDmRequest(tok, userId),
                             "awaitCreate"),
              promise |-> Pending]

\* A faulty variant: without a channel, openOrGetDm returns null instead of
\* creating one.
openOrGetDmResumeLookup_giveUp(call, out, tok, userId) ==
    LET r == isDmOpenResume(call, out, userId)
    IN  IF r.promise.kind = "rejected"
        THEN [call |-> Log(r.call, "Error opening DM: "
                                       \o ErrText(r.promise.error)),
              promise |-> Rejected(r.promise.error)]
        ELSE IF Truthy(r.promise.value)
        THEN [call |-> r.call, promise |-> Resolved(r.promise.value)]
        ELSE [call |-> r.call, promise |-> Resolved(Null)]

\* openOrGetDm, from the answer to isDmOpen's GET on.
openOrGetDmResumeLookup(call, out, tok, userId) ==
    LET r == isDmOpenResume(call, out, userId)
    IN  IF r.promise.kind = "rejected"
        THEN [call |-> Log(r.call, "Error opening DM: "
                                       \o ErrText(r.promise.error)),
              promise |-> Rejected(r.promise.error)]
        ELSE IF Truthy(r.promise.value)
        THEN [call |-> r.call, promise |-> Resolved(r.promise.value)]
        ELSE [call |-> Issue(r.call, createDmRequest(tok, userId),
                             "awaitCreate"),
              promise |-> Pending]

\* A faulty variant: the recipient's id is returned, not the channel's.
openOrGetDmResumeCreate_recipient(call, out) ==
    IF out.ok
    THEN [call |-> Settle(call, out),
          promise |-> Resolved(call.args.userId)]
    ELSE [call |-> Log(Settle(call, out),
                       "Error opening DM: " \o ErrText(out.error)),
          promise |-> Rejected(out.error)]

\* openOrGetDm, from the answer to its creation POST on.
openOrGetDmResumeCreate(call, out) ==
    IF out.ok
    THEN [call |-> Settle(call, out), promise |-> Resolved(out.data.id)]
    ELSE [call |-> Log(Settle(call, out),
                       "Error opening DM: " \o ErrText(out.error)),
          promise |-> Rejected(out.error)]

\* A faulty variant: the message is sent to the user id, not the channel.
dmResume_toUser(r, tok, message) ==
    CASE r.promise.kind = "pending" -> r.call
      [] r.promise.kind = "resolved" ->
            LET endpoint == "/channels/" \o r.call.args.userId \o "/messages"
            IN  [Issue(r.call,
                       makeRequest(tok, endpoint, "post",
                                   [content |-> message]),
                       "done")
                 EXCEPT !.endpoint = endpoint, !.floating = Pending,
                        !.result = Resolved(Undefined)]
      [] OTHER -> Return(Log(r.call, r.promise.error.message), Undefined)

\* A faulty variant: dm awaits the send, its promise stays pending while the
\* send is in flight.
dmResume_awaited(r, tok, message) ==
    CASE r.promise.kind = "pending" -> r.call
      [] r.promise.kind = "resolved" ->
            LET user == r.promise.value
                endpoint == "/channels/" \o user \o "/messages"
            IN  [Issue(r.call,
                       makeRequest(tok, endpoint, "post",
                                   [content |-> message]),
                       "done")
                 EXCEPT !.endpoint = endpoint, !.floating = Pending,
                        !.result = Pending]
      [] OTHER -> Return(Log(r.call, r.promise.error.message), Undefined)

\* A faulty variant: dm prints the error of openOrGetDm and rethrows it.
dmResume_rethrow(r, tok, message) ==
    CASE r.promise.kind = "pending" -> r.call
      [] r.promise.kind = "resolved" ->
            LET user == r.promise.value
                endpoint == "/channels/" \o user \o "/messages"
            IN  [Issue(r.call,
                       makeRequest(tok, endpoint, "post",
                                   [content |-> message]),
                       "done")
                 EXCEPT !.endpoint = endpoint, !.floating = Pending,
                        !.result = Resolved(Undefined)]
      [] OTHER -> Throw(Log(r.call, r.promise.error.message),
                        r.promise.error)

\* dm, once openOrGetDm's promise r.promise has settled: sendMessage is
\* called and not awaited, so its promise floats; a rejection of openOrGetDm
\* is printed.
dmResume(r, tok, message) ==
    CASE r.promise.kind = "pending" -> r.call
      [] r.promise.kind = "resolved" ->
            LET user == r.promise.value
                endpoint == "/channels/" \o user \o "/messages"
            IN  [Issue(r.call,
                       makeRequest(tok, endpoint, "post",
                                   [content |-> message]),
                       "done")
                 EXCEPT !.endpoint = endpoint, !.floating = Pending,
                        !.result = Resolved(Undefined)]
      [] OTHER -> Return(Log(r.call, r.promise.error.message), Undefined)

\* A faulty variant: the outcome of the send becomes the outcome of dm, as
\* if dm returned the promise of sendMessage.
dmSendResume_reported(call, out, logs) ==
    LET r == makeRequestResume(out, call.endpoint, logs)
    IN  [Settle(call, out) EXCEPT !.floating = r.promise,
                                   !.result = r.promise, !.log = @ \o r.log]

\* The floating sendMessage of dm, when its request settles.
dmSendResume(call, out, logs) ==
    LET r == makeRequestResume(out, call.endpoint, logs)
    IN  [Settle(call, out) EXCEPT !.floating = r.promise, !.log = @ \o r.log]

\* The promise of a helper called directly becomes the call's result.
Finish(r) ==
    IF r.promise.kind = "pending" THEN r.call
    ELSE [r.call EXCEPT !.result = r.promise, !.pc = "done"]

isDmOpenCall(tok, userId) ==
    Issue(NewCall("bot.isDmOpen", [userId |-> userId]),
          lookupRequest(tok), "awaitLookup")
openOrGetDmCall(tok, userId) ==
    Issue(NewCall("bot.openOrGetDm", [userId |-> userId]),
          lookupRequest(tok), "awaitLookup")
dmCall(tok, userId, message) ==
    Issue(NewCall("bot.dm", [userId |-> userId, message |-> message]),
          lookupRequest(tok), "awaitLookup")

isDmOpen(c) ==
    /\ HasClient /\ CanStart(c)
    /\ \E u \in Users :
           calls' = [calls EXCEPT ![c] =
                        isDmOpenCall(token, u)]
    /\ BotFrame
isDmOpenSettle(c) ==
    /\ At(c, "bot.isDmOpen", "awaitLookup")
    /\ \E out \in LookupOutcomes(AllChannels) :
           calls' = [calls EXCEPT ![c] =
               Finish(isDmOpenResume(calls[c], out, calls[c].args.userId))]
    /\ BotFrame

openOrGetDm(c) ==
    /\ HasClient /\ CanStart(c)
    /\ \E u \in Users :
           calls' = [calls EXCEPT ![c] =
                        openOrGetDmCall(token, u)]
    /\ BotFrame
openOrGetDmLookupSettle(c) ==
    /\ At(c, "bot.openOrGetDm", "awaitLookup")
    /\ \E out \in LookupOutcomes(SomeChannels) :
           calls' = [calls EXCEPT ![c] =
               Finish(openOrGetDmResumeLookup(calls[c], out, token,
                                              calls[c].args.userId))]
    /\ BotFrame
openOrGetDmCreateSettle(c) ==
    /\ At(c, "bot.openOrGetDm", "awaitCreate")
    /\ \E out \in Outcomes(CreatedDms) :
           calls' = [calls EXCEPT ![c] =
               Finish(openOrGetDmResumeCreate(calls[c], out))]
    /\ BotFrame

dm(c) ==
    /\ HasClient /\ CanStart(c)
    /\ \E u \in Users, m \in Msgs :
           calls' = [calls EXCEPT ![c] =
                        dmCall(token, u, m)]
    /\ BotFrame
dmLookupSettle(c) ==
    /\ At(c, "bot.dm", "awaitLookup")
    /\ \E out \in LookupOutcomes(SomeChannels) :
           calls' = [calls EXCEPT ![c] =
               dmResume(openOrGetDmResumeLookup(calls[c], out, token,
                                                calls[c].args.userId),
                        token, calls[c].args.message)]
    /\ BotFrame
dmCreateSettle(c) ==
    /\ At(c, "bot.dm", "awaitCreate")
    /\ \E out \in Outcomes(CreatedDms) :
           calls' = [calls EXCEPT ![c] =
               dmResume(openOrGetDmResumeCreate(calls[c], out),
                        token, calls[c].args.message)]
    /\ BotFrame
dmSendSettle(c) ==
    /\ calls[c].op = "bot.dm" /\ calls[c].floating.kind = "pending"
    /\ \E out \in Outcomes(Datas) :
           calls' = [calls EXCEPT ![c] = dmSendResume(calls[c], out, logging)]
    /\ BotFrame

(***************************************************************************)
(* The helpers that call axios themselves.                                 *)
(***************************************************************************)
\* What reading .data of an undefined error.response throws.
TypeErrData ==
    [name |-> "TypeError", isAxios |-> FALSE, hasResponse |-> FALSE,
     data |-> "",
     message |-> "Cannot read properties of undefined (reading 'data')"]
\* Buffer.from(data, 'binary')
BufferFrom(d) == [type |-> "Buffer", data |-> d]

\* ---- downloadImage(url): no try, no headers
downloadImageCall(url) ==
    Issue(NewCall("bot.downloadImage", [url |-> url]),
          Req("get", url, NoBody, NoHeaders), "awaitImage")
downloadImageResume(call, out) ==
    IF out.ok
    THEN Return(Settle(call, out), BufferFrom(out.data))
    ELSE Throw(Settle(call, out), out.error)

\* ---- createWebhook(channelId, webhookName, webhookImage)
\* A faulty variant: the POST is handed to the dispatcher.
createWebhookCall_dispatched(tok, channelId, webhookName, webhookImage) ==
    LET endpoint == "/channels/" \o channelId \o "/webhooks"
    IN  Issue([NewCall("bot.createWebhook",
                       [channelId |-> channelId, webhookName |-> webhookName,
                        webhookImage |-> webhookImage])
               EXCEPT !.endpoint = endpoint],
              makeRequest(tok, endpoint, "post",
                          [name |-> webhookName, avatar |-> webhookImage]),
              "awaitCreateWebhook")
createWebhookCall(tok, channelId, webhookName, webhookImage) ==
    Issue(NewCall("bot.createWebhook",
                  [channelId |-> channelId, webhookName |-> webhookName,
                   webhookImage |-> webhookImage]),
          Req("post",
              "https://discord.com/api/v9/channels/" \o channelId
                  \o "/webhooks",
              [name |-> webhookName, avatar |-> webhookImage], BotAuth(tok)),
          "awaitCreateWebhook")
\* The catch prints error.response.data: reading it throws when the error
\* carries no response, and the call then rejects with that TypeError.
createWebhookResume(call, out, logs) ==
    IF out.ok
    THEN LET webhook == out.data
             made == IF logs
                     THEN Log(Settle(call, out),
                              "Webhook created successfully: " \o webhook.id)
                     ELSE Settle(call, out)
         IN  Return(Log(made, "Webhook URL: https://discord.com/api/webhooks/"
                                  \o webhook.id \o "/" \o webhook.token),
                    webhook)
    ELSE IF out.error.hasResponse
    THEN Return(Log(Settle(call, out),
                    "Error creating webhook: " \o out.error.data),
                Null)
    ELSE Throw(Settle(call, out), TypeErrData)

\* ---- deleteWebhook(webhookId)
deleteWebhookCall(tok, webhookId) ==
    Issue(NewCall("bot.deleteWebhook", [webhookId |-> webhookId]),
          Req("delete", "https://discord.com/api/v9/webhooks/" \o webhookId,
              NoBody, BotAuth(tok)),
          "awaitDeleteWebhook")
deleteWebhookResume(call, out, logs) ==
    IF out.ok
    THEN Return(IF logs
                THEN Log(Settle(call, out),
                         "Webhook deleted successfully: "
                             \o call.args.webhookId)
                ELSE Settle(call, out),
                Undefined)
    ELSE IF out.error.hasResponse
    THEN Return(Log(Settle(call, out),
                    "Error deleting webhook: " \o out.error.data),
                Undefined)
    ELSE Throw(Settle(call, out), TypeErrData)

downloadImage(c) ==
    /\ HasClient /\ CanStart(c)
    /\ \E url \in ImageUrls :
           calls' = [calls EXCEPT ![c] = downloadImageCall(url)]
    /\ BotFrame
downloadImageSettle(c) ==
    /\ At(c, "bot.downloadImage", "awaitImage")
    /\ \E out \in Outcomes(ImageDatas) :
           calls' = [calls EXCEPT ![c] = downloadImageResume(calls[c], out)]
    /\ BotFrame
createWebhook(c) ==
    /\ HasClient /\ CanStart(c)
    /\ \E ch \in ChannelIds, n \in Names, img \in WebhookImages :
           calls' = [calls EXCEPT ![c] = createWebhookCall(token, ch, n, img)]
    /\ BotFrame
createWebhookSettle(c) ==
    /\ At(c, "bot.createWebhook", "awaitCreateWebhook")
    /\ \E out \in Outcomes(CreatedWebhooks) :
           calls' = [calls EXCEPT ![c] =
                        createWebhookResume(calls[c], out, logging)]
    /\ BotFrame
deleteWebhook(c) ==
    /\ HasClient /\ CanStart(c)
    /\ \E w \in WebhookIds :
           calls' = [calls EXCEPT ![c] = deleteWebhookCall(token, w)]
    /\ BotFrame
deleteWebhookSettle(c) ==
    /\ At(c, "bot.deleteWebhook", "awaitDeleteWebhook")
    /\ \E out \in Outcomes({""}) :
           calls' = [calls EXCEPT ![c] =
                        deleteWebhookResume(calls[c], out, logging)]
    /\ BotFrame

(***************************************************************************)
(* The bot client used by one caller, one call after the other.            *)
(***************************************************************************)
InitBot ==
    /\ webhookUrl = NoInstance
    /\ \E tok \in TokenInputs, rest \in LogsInputs :
           /\ token = ClientCtor(tok, ClientLogs(rest)).token
           /\ logging = ClientCtor(tok, ClientLogs(rest)).logging
           /\ calls = [c \in Slots |-> IF c = 1 THEN ClientNew(tok, rest)
                                       ELSE IdleCall]

NextBot ==
    \/ botSendMessage(1) \/ getUser(1) \/ getGuild(1) \/ createChannel(1)
    \/ kickMember(1) \/ getChannelMessages(1) \/ addReaction(1)
    \/ removeReaction(1) \/ editMessage(1) \/ getMembers(1)
    \/ botDeleteMessage(1) \/ editRole(1) \/ botInfo(1) \/ leaveGuild(1)
    \/ makeRequestSettle(1)
    \/ isDmOpen(1) \/ isDmOpenSettle(1)
    \/ openOrGetDm(1) \/ openOrGetDmLookupSettle(1)
    \/ openOrGetDmCreateSettle(1)
    \/ dm(1) \/ dmLookupSettle(1) \/ dmCreateSettle(1) \/ dmSendSettle(1)
    \/ downloadImage(1) \/ downloadImageSettle(1)
    \/ createWebhook(1) \/ createWebhookSettle(1)
    \/ deleteWebhook(1) \/ deleteWebhookSettle(1)

SpecBot == InitBot /\ [][NextBot]_vars

(***************************************************************************)
(* An application holding one client of each kind, both built with a      *)
(* credential, one call after the other.                                   *)
(***************************************************************************)
InitClients ==
    \E hook \in {h \in HookInputs : ~WebhookUtilsCtor(h).threw},
       tok \in TokenInputs \ {"", Undefined}, rest \in LogsInputs :
        /\ webhookUrl = WebhookUtilsCtor(hook).webhookUrl
        /\ token = ClientCtor(tok, ClientLogs(rest)).token
        /\ logging = ClientCtor(tok, ClientLogs(rest)).logging
        /\ calls = [c \in Slots |-> IF c = 1 THEN ClientNew(tok, rest)
                                    ELSE IdleCall]

NextClients == NextWebhook \/ NextBot

SpecClients == InitClients /\ [][NextClients]_vars

(***************************************************************************)
(* Both clients used by concurrent callers: a call may start in any slot   *)
(* while calls in other slots await their requests.  The server answers a  *)
(* lookup with a list of at most one DM channel.                           *)
(***************************************************************************)
ShortLists ==
    {<<>>} \cup {<<[id |-> "c1", type |-> DmType, recipients |-> <<u>>]>> :
                    u \in Users}
ShortOutcomes == {Ok(L) : L \in ShortLists} \cup {Fail(e) : e \in AxiosErrors}

openOrGetDmLookupSettleShort(c) ==
    /\ At(c, "bot.openOrGetDm", "awaitLookup")
    /\ \E out \in ShortOutcomes :
           calls' = [calls EXCEPT ![c] =
               Finish(openOrGetDmResumeLookup(calls[c], out, token,
                                              calls[c].args.userId))]
    /\ BotFrame

InitConcurrent ==
    \E hook \in HookInputs, tok \in TokenInputs, rest \in LogsInputs :
        /\ webhookUrl = WebhookUtilsCtor(hook).webhookUrl
        /\ token = ClientCtor(tok, ClientLogs(rest)).token
        /\ logging = ClientCtor(tok, ClientLogs(rest)).logging
        /\ calls = [c \in Slots |-> IF c = 1 THEN ClientNew(tok, rest)
                                    ELSE IF c = 2 THEN WebhookUtilsNew(hook)
                                    ELSE IdleCall]

NextConcurrent ==
    \E c \in Slots :
        \/ openOrGetDm(c) \/ openOrGetDmLookupSettleShort(c)
        \/ openOrGetDmCreateSettle(c)
        \/ sendMessage(c) \/ sendMessageSettle(c)

SpecConcurrent == InitConcurrent /\ [][NextConcurrent]_vars

(***************************************************************************)
(* Properties.                                                             *)
(***************************************************************************)
Started(c, op) == calls[c].op = op /\ calls[c].pc # "idle"
Done(c, op) == calls[c].op = op /\ calls[c].pc = "done"
Min(S) == CHOOSE x \in S : \A y \in S : x <= y

\* C1: one call of WebhookUtils.sendMessage(m) issues exactly one request, a
\* POST to the webhook URL with body {content: m}, while the request is in
\* flight, after it succeeded and after it failed.
C1_SendMessageOnePost ==
    \A c \in Slots :
        Started(c, "sendMessage") =>
            /\ Len(calls[c].reqs) = 1
            /\ calls[c].reqs[1].method = "post"
            /\ calls[c].reqs[1].url = webhookUrl
            /\ calls[c].reqs[1].body = [content |-> calls[c].args.message]
            /\ webhookUrl # ""

C1_Witness ==
    \E c \in Slots :
        /\ Done(c, "sendMessage")
        /\ calls[c].reqs[1].status = "fail"
        /\ calls[c].reqs[1].body = [content |-> "bye"]

\* C2: one call of WebhookUtils.deleteMessage(id) issues exactly one request,
\* a DELETE to webhookUrl + "/messages/" + id, and none to the bare URL.
C2_DeleteMessageOneDelete ==
    \A c \in Slots :
        Started(c, "deleteMessage") =>
            /\ Len(calls[c].reqs) = 1
            /\ calls[c].reqs[1].method = "delete"
            /\ calls[c].reqs[1].url =
                   webhookUrl \o "/messages/" \o calls[c].args.messageId
            /\ \A i \in DOMAIN calls[c].reqs :
                   calls[c].reqs[i].url # webhookUrl

C2_Witness ==
    \E c \in Slots :
        /\ Done(c, "deleteMessage")
        /\ calls[c].reqs[1].url = "https://hook/B/messages/222"
        /\ calls[c].reqs[1].status = "ok"

MissingFile(c) ==
    /\ Done(c, "sendFile")
    /\ calls[c].args.filePath \notin ExistingFiles

DmAmong(L, u) ==
    {i \in DOMAIN L :
        /\ L[i].type = DmType
        /\ \E j \in DOMAIN L[i].recipients : L[i].recipients[j] = u}
DmFirst(L, u) ==
    {i \in DOMAIN L :
        /\ L[i].type = DmType
        /\ Len(L[i].recipients) > 0
        /\ L[i].recipients[1] = u}
DmEmpty(L) ==
    {i \in DOMAIN L : L[i].type = DmType /\ Len(L[i].recipients) = 0}
\* The scan reaches a DM without recipients before any match.
ScanThrows(L, u) ==
    /\ DmEmpty(L) # {}
    /\ DmFirst(L, u) # {} => Min(DmEmpty(L)) < Min(DmFirst(L, u))

Looked(c, op) ==
    /\ Started(c, op)
    /\ calls[c].reqs[1].status = "ok"

\* C4 as stated: isDmOpen(userId) returns null when no channel of the
\* fetched list has type 1 and userId among its recipients, and otherwise
\* the id of the first such channel (read here for the calls that return).
C4_IsDmOpenAmongRecipients ==
    \A c \in Slots :
        Looked(c, "bot.isDmOpen") /\ calls[c].result.kind = "resolved" =>
            LET L == calls[c].reqs[1].data
                M == DmAmong(L, calls[c].args.userId)
            IN  calls[c].result =
                    Resolved(IF M = {} THEN Null ELSE L[Min(M)].id)

\* C4 as amended: isDmOpen(userId) returns the id of the first channel of
\* the fetched list that has type 1 and userId as its FIRST recipient, and
\* null when there is none; when the scan reaches a type-1 channel without
\* recipients before any such channel, isDmOpen rejects with a TypeError.
C4_IsDmOpenFirstRecipient ==
    \A c \in Slots :
        Looked(c, "bot.isDmOpen") =>
            LET L == calls[c].reqs[1].data
                u == calls[c].args.userId
                M == DmFirst(L, u)
            IN  calls[c].result =
                    IF ScanThrows(L, u) THEN Rejected(TypeErr)
                    ELSE Resolved(IF M = {} THEN Null ELSE L[Min(M)].id)

C4_Witness ==
    \E c \in Slots :
        /\ Looked(c, "bot.isDmOpen")
        /\ LET L == calls[c].reqs[1].data
               M == DmFirst(L, calls[c].args.userId)
           IN  /\ Cardinality(M) = 2
               /\ L[1].id # L[2].id
               /\ calls[c].result = Resolved(L[1].id)

\* The lookup of call c returned a channel id (not null, not an error).
LookupFound(c) ==
    /\ calls[c].reqs[1].status = "ok"
    /\ ~ScanThrows(calls[c].reqs[1].data, calls[c].args.userId)
    /\ DmFirst(calls[c].reqs[1].data, calls[c].args.userId) # {}
LookupId(c) ==
    LET L == calls[c].reqs[1].data
    IN  L[Min(DmFirst(L, calls[c].args.userId))].id
IsCreate(r) == r.method = "post" /\ r.url = DmChannelsUrl

\* C5: when the isDmOpen lookup of an openOrGetDm(userId) returned a
\* non-null id, no creation POST to /users/@me/channels is issued (by
\* openOrGetDm called directly or from dm), and openOrGetDm returns that id.
C5_NoCreateWhenOpen ==
    \A c \in Slots :
        /\ (Started(c, "bot.openOrGetDm") \/ Started(c, "bot.dm"))
               /\ LookupFound(c)
           => \A i \in DOMAIN calls[c].reqs : ~IsCreate(calls[c].reqs[i])
        /\ Started(c, "bot.openOrGetDm") /\ LookupFound(c)
           => /\ calls[c].result = Resolved(LookupId(c))
              /\ Len(calls[c].reqs) = 1

C5_Witness ==
    \E c \in Slots :
        /\ Done(c, "bot.openOrGetDm")
        /\ LookupFound(c)
        /\ Len(calls[c].reqs[1].data) = 2
        /\ calls[c].result = Resolved("c2")

AllChannelIds == ChannelIds \cup {d.id : d \in CreatedDms}
IsSend(r) ==
    /\ r.method = "post"
    /\ \E id \in AllChannelIds :
           r.url = "https://discord.com/api/v10/channels/" \o id
                       \o "/messages"
Sends(c) == {i \in DOMAIN calls[c].reqs : IsSend(calls[c].reqs[i])}
\* The creation POST of call c succeeded.
Created(c) ==
    /\ Len(calls[c].reqs) >= 2
    /\ IsCreate(calls[c].reqs[2])
    /\ calls[c].reqs[2].status = "ok"

\* C6: one call of dm(userId, message) whose channel was resolved, found or
\* newly created, issues exactly one message-send request: a POST to
\* /channels/{resolved id}/messages with body {content: message}.
C6_DmOneSend ==
    \A c \in Slots :
        Done(c, "bot.dm") /\ (LookupFound(c) \/ Created(c)) =>
            LET id == IF Created(c) THEN calls[c].reqs[2].data.id
                      ELSE LookupId(c)
                n == Len(calls[c].reqs)
            IN  /\ Sends(c) = {n}
                /\ n = IF Created(c) THEN 3 ELSE 2
                /\ calls[c].reqs[n].url =
                       "https://discord.com/api/v10/channels/" \o id
                           \o "/messages"
                /\ calls[c].reqs[n].body =
                       [content |-> calls[c].args.message]

C6_Witness ==
    \E c \in Slots :
        /\ Done(c, "bot.dm")
        /\ Created(c)
        /\ Len(calls[c].reqs) = 3
        /\ calls[c].reqs[3].status = "ok"
        /\ calls[c].reqs[3].url =
               "https://discord.com/api/v10/channels/n2/messages"

\* C7: getUser(id) on a client built with token T issues exactly one
\* request, a GET to the v10 base URL + /users/{id} with the header
\* Authorization: "Bot " + T, and returns a successful response's body.
C7_GetUser ==
    \A c \in Slots :
        Started(c, "bot.getUser") =>
            /\ Len(calls[c].reqs) = 1
            /\ calls[c].reqs[1].method = "get"
            /\ calls[c].reqs[1].url =
                   "https://discord.com/api/v10/users/"
                       \o calls[c].args.userId
            /\ calls[c].reqs[1].headers.Authorization = "Bot " \o token
            /\ calls[c].reqs[1].status = "ok"
                   => calls[c].result = Resolved(calls[c].reqs[1].data)

C7_Witness ==
    \E c \in Slots :
        /\ Done(c, "bot.getUser")
        /\ token = "T"
        /\ calls[c].reqs[1].url = "https://discord.com/api/v10/users/u2"
        /\ calls[c].reqs[1].headers.Authorization = "Bot T"
        /\ calls[c].result = Resolved("{ok: 2}")

ForwarderOps ==
    {"bot.sendMessage", "bot.getUser", "bot.getGuild", "bot.createChannel",
     "bot.kickMember", "bot.getChannelMessages", "bot.addReaction",
     "bot.removeReaction", "bot.editMessage", "bot.getMembers",
     "bot.deleteMessage", "bot.editRole", "bot.info", "bot.leaveGuild"}
LastReq(c) == calls[c].reqs[Len(calls[c].reqs)]
DispatcherLine(e) ==
    "Discord API Error: " \o (IF e.hasResponse THEN e.data ELSE e.message)

\* C8: when the request issued by makeRequest fails, the public operation
\* that called makeRequest rejects with that same error after printing it,
\* and no further request is issued: for each forwarder, and for the
\* sendMessage that dm calls (whose promise is the floating one).
C8_DispatcherRethrows ==
    \A c \in Slots :
        /\ calls[c].op \in ForwarderOps /\ calls[c].pc = "done"
               /\ calls[c].reqs[1].status = "fail"
           => /\ calls[c].result = Rejected(calls[c].reqs[1].error)
              /\ Len(calls[c].reqs) = 1
              /\ calls[c].log = <<DispatcherLine(calls[c].reqs[1].error)>>
        /\ calls[c].op = "bot.dm" /\ Sends(c) # {}
               /\ LastReq(c).status = "fail"
           => /\ calls[c].floating = Rejected(LastReq(c).error)
              /\ Sends(c) = {Len(calls[c].reqs)}
              /\ calls[c].log[Len(calls[c].log)] =
                     DispatcherLine(LastReq(c).error)

C8_Witness ==
    \E c \in Slots :
        /\ Done(c, "bot.kickMember")
        /\ calls[c].reqs[1].status = "fail"
        /\ calls[c].result = Rejected(NetError)

SwallowingOps ==
    {"sendMessage", "sendFile", "sendSimpleEmbed", "sendMultipleEmbeds",
     "deleteMessage", "deleteAllMessages", "updateWebhook", "setRateLimit",
     "setWebhookOwner"}

\* C9: every WebhookUtils operation other than info returns normally when
\* its HTTP request fails: its promise does not reject.
C9_WebhookOpsSwallow ==
    \A c \in Slots :
        /\ calls[c].op \in SwallowingOps
        /\ calls[c].pc = "done"
        /\ Len(calls[c].reqs) > 0
        /\ LastReq(c).status = "fail"
        => calls[c].result = Resolved(Undefined)

IsAvatarPatch(r, c) ==
    /\ r.method = "patch" /\ r.url = webhookUrl
    /\ r.body = [avatar |-> "data:image/jpeg;base64,"
                                \o base64(FileBytes(calls[c].args.imagePath))]
IsNamePatch(r, c) ==
    /\ r.method = "patch" /\ r.url = webhookUrl
    /\ r.body = [name |-> calls[c].args.newName]
C11_UpdateWebhookOrder ==
    \A c \in Slots :
        Started(c, "updateWebhook") =>
            LET reqs == calls[c].reqs
            IN  /\ Len(reqs) <= 2
                /\ Len(reqs) >= 1 => IsAvatarPatch(reqs[1], c)
                /\ Len(reqs) = 2 =>
                       IsNamePatch(reqs[2], c) /\ reqs[1].status = "ok"
                /\ (Len(reqs) >= 1 /\ reqs[1].status = "fail") =>
                       Len(reqs) = 1 /\ calls[c].pc = "done"
\* Both PATCHes have been issued, the name after the avatar succeeded.
C11_Witness ==
    \E c \in Slots :
        /\ Done(c, "updateWebhook")
        /\ Len(calls[c].reqs) = 2
        /\ calls[c].reqs[1].status = "ok"
        /\ IsNamePatch(calls[c].reqs[2], c)
\* The avatar PATCH failed and the call is over.
C11_WitnessAvatarFailed ==
    \E c \in Slots :
        /\ Done(c, "updateWebhook")
        /\ Len(calls[c].reqs) = 1
        /\ calls[c].reqs[1].status = "fail"

\* C12: constructing either client with an empty or missing credential
\* throws: new WebhookUtils(hook) with an empty or missing hook, and
\* new Client(token) with an empty or missing token, throw, and no client
\* instance holds an empty or missing credential.
NoCredential == {"", Undefined}
C12_EmptyCredentialThrows ==
    /\ webhookUrl \notin NoCredential
    /\ token \notin NoCredential
    /\ \A c \in Slots :
           /\ (calls[c].op = "new WebhookUtils"
                   /\ calls[c].args.hook \in NoCredential) =>
                  calls[c].result.kind = "rejected" /\ ~HasWebhook
           /\ (calls[c].op = "new Client"
                   /\ calls[c].args.token \in NoCredential) =>
                  calls[c].result.kind = "rejected" /\ ~HasClient

\* The operations of the bot client.
DirectOps ==
    {"bot.isDmOpen", "bot.openOrGetDm", "bot.dm", "bot.downloadImage",
     "bot.createWebhook", "bot.deleteWebhook"}
BotOps == ForwarderOps \cup DirectOps
CarriesBotAuth(r) == r.headers.Authorization = "Bot " \o token

ResolutionFailed(c) ==
    \E i \in DOMAIN calls[c].reqs :
        /\ calls[c].reqs[i].url = DmChannelsUrl
        /\ calls[c].reqs[i].status = "fail"

\* C14: when the lookup GET or the creation POST inside dm(userId, message)
\* fails, dm prints the error and returns normally (its promise resolves),
\* the failed request is the last one of the call, and no message-send
\* request is issued, awaited or floating.
C14_DmSwallowsResolutionFailure ==
    \A c \in Slots :
        Started(c, "bot.dm") /\ ResolutionFailed(c) =>
            /\ calls[c].pc = "done"
            /\ calls[c].result = Resolved(Undefined)
            /\ LastReq(c).url = DmChannelsUrl /\ LastReq(c).status = "fail"
            /\ Sends(c) = {}
            /\ calls[c].floating = NoPromise
            /\ calls[c].log # <<>>
            /\ calls[c].log[Len(calls[c].log)] = LastReq(c).error.message
\* The lookup found nothing and the creation POST failed.
C14_Witness ==
    \E c \in Slots :
        /\ Done(c, "bot.dm")
        /\ Len(calls[c].reqs) = 2
        /\ IsCreate(calls[c].reqs[2])
        /\ calls[c].reqs[2].status = "fail"
        /\ calls[c].result = Resolved(Undefined)

LookupEmpty(c) ==
    /\ calls[c].reqs[1].status = "ok"
    /\ ~ScanThrows(calls[c].reqs[1].data, calls[c].args.userId)
    /\ DmFirst(calls[c].reqs[1].data, calls[c].args.userId) = {}
HasCreateFor(c, u) ==
    /\ Len(calls[c].reqs) = 2
    /\ IsCreate(calls[c].reqs[2])
    /\ calls[c].reqs[2].body = [recipient_id |-> u]

\* C16: of two openOrGetDm calls for the same user that run together, each
\* one whose lookup found no DM channel issues its own creation POST for
\* that user, whatever the other call has done; when both lookups found
\* none, two creation POSTs for the same recipient have been issued.
C16_BothCreate ==
    \A c, d \in Slots :
        /\ c # d
        /\ Started(c, "bot.openOrGetDm") /\ Started(d, "bot.openOrGetDm")
        /\ calls[c].args.userId = calls[d].args.userId
        /\ LookupEmpty(c)
        => /\ HasCreateFor(c, calls[c].args.userId)
           /\ LookupEmpty(d) => HasCreateFor(d, calls[c].args.userId)
\* Both lookups returned before either creation POST was answered, and the
\* two creation POSTs for the same recipient are in flight together.
C16_Witness ==
    \E c, d \in Slots :
        /\ c # d
        /\ At(c, "bot.openOrGetDm", "awaitCreate")
        /\ At(d, "bot.openOrGetDm", "awaitCreate")
        /\ calls[c].args.userId = calls[d].args.userId
        /\ calls[c].reqs[1].data = <<>> /\ calls[d].reqs[1].data = <<>>
        /\ HasCreateFor(c, calls[c].args.userId)
        /\ HasCreateFor(d, calls[c].args.userId)
        /\ calls[c].reqs[2].status = "inflight"
        /\ calls[d].reqs[2].status = "inflight"

\* Request r of call c was issued by makeRequest: it goes to the v10 base
\* URL followed by the endpoint, with the dispatcher's two headers.
ViaDispatcher(c, r) ==
    /\ r.url = BaseV10 \o calls[c].endpoint
    /\ r.headers = [Authorization |-> "Bot " \o token,
                    ContentType |-> "application/json"]
\* The requests of call c that its operation issued itself are those not
\* issued by the openOrGetDm it called (dm calls openOrGetDm).
OwnRequests(c) ==
    {i \in DOMAIN calls[c].reqs :
        calls[c].op = "bot.dm" => calls[c].reqs[i].url # DmChannelsUrl}
AllDirect(c) ==
    \A i \in DOMAIN calls[c].reqs : ~ViaDispatcher(c, calls[c].reqs[i])
AllDispatched(c) ==
    \A i \in OwnRequests(c) : ViaDispatcher(c, calls[c].reqs[i])

SameRequest(r, q) == r.method = q.method /\ r.url = q.url /\ r.body = q.body

\* C18: within one call of any operation of either client no request is
\* issued twice: the requests of a call are pairwise different, so a request
\* that failed is not among those issued after it.
C18_NoRetry ==
    \A c \in Slots :
        \A i, j \in DOMAIN calls[c].reqs :
            i < j => ~SameRequest(calls[c].reqs[i], calls[c].reqs[j])
\* A forwarder whose only request failed is over, with that one request.
C18_Witness ==
    \E c \in Slots :
        /\ Done(c, "bot.editMessage")
        /\ Len(calls[c].reqs) = 1
        /\ calls[c].reqs[1].status = "fail"
\* updateWebhook: the name PATCH failed after the avatar PATCH succeeded.
C18_WitnessWebhook ==
    \E c \in Slots :
        /\ Done(c, "updateWebhook")
        /\ Len(calls[c].reqs) = 2
        /\ calls[c].reqs[2].status = "fail"

\* C19: a call of any of the fourteen forwarders issues exactly one request,
\* the dispatcher's, and its promise is the dispatcher's: pending while the
\* request is in flight, resolved with the response body when it succeeded,
\* rejected with the request's error when it failed.
C19_ForwardersForwardOnce ==
    \A c \in Slots :
        calls[c].op \in ForwarderOps =>
            /\ Len(calls[c].reqs) = 1
            /\ ViaDispatcher(c, calls[c].reqs[1])
            /\ calls[c].result =
                   CASE calls[c].reqs[1].status = "inflight" -> Pending
                     [] calls[c].reqs[1].status = "ok" ->
                            Resolved(calls[c].reqs[1].data)
                     [] OTHER -> Rejected(calls[c].reqs[1].error)
C19_Witness ==
    \E c \in Slots :
        /\ Done(c, "bot.getGuild")
        /\ Len(calls[c].reqs) = 1
        /\ calls[c].reqs[1].url = "https://discord.com/api/v10/guilds/g2"
        /\ calls[c].result = Resolved("{ok: 2}")

C20_WitnessOmitted ==
    \E c \in Slots :
        /\ calls[c].op = "new Client"
        /\ "logs" \notin DOMAIN calls[c].args
        /\ logging = TRUE

\* C21: when the lookup inside openOrGetDm(userId) returned null (a list
\* without a DM channel for userId), openOrGetDm issues exactly one further
\* request, a POST to /users/@me/channels with body {recipient_id: userId},
\* and once that POST has succeeded it returns the id field of its response.
C21_CreateWhenNoneOpen ==
    \A c \in Slots :
        Started(c, "bot.openOrGetDm") /\ LookupEmpty(c) =>
            /\ HasCreateFor(c, calls[c].args.userId)
            /\ calls[c].reqs[2].headers.Authorization = "Bot " \o token
            /\ calls[c].reqs[2].status = "inflight" =>
                   calls[c].result = Pending
            /\ calls[c].reqs[2].status = "ok" =>
                   calls[c].result = Resolved(calls[c].reqs[2].data.id)
\* The lookup returned a list of other channels, the POST answered {id: n1}.
C21_Witness ==
    \E c \in Slots :
        /\ Done(c, "bot.openOrGetDm")
        /\ LookupEmpty(c)
        /\ Len(calls[c].reqs[1].data) = 2
        /\ calls[c].reqs[2].status = "ok"
        /\ calls[c].reqs[2].data = [id |-> "n1"]
        /\ calls[c].result = Resolved("n1")

\* C22: sendSimpleEmbed(content) posts to the webhook URL the body
\* {embeds: [e]} with one embed e that is {description: content}, and
\* sendMultipleEmbeds(arr) posts {embeds: arr}, the caller's array with the
\* same elements in the same order; each issues that one request only.
C22_EmbedBodies ==
    \A c \in Slots :
        /\ Started(c, "sendSimpleEmbed") =>
              /\ Len(calls[c].reqs) = 1
              /\ calls[c].reqs[1].method = "post"
              /\ calls[c].reqs[1].url = webhookUrl
              /\ DOMAIN calls[c].reqs[1].body = {"embeds"}
              /\ Len(calls[c].reqs[1].body.embeds) = 1
              /\ calls[c].reqs[1].body.embeds[1] =
                     [description |-> calls[c].args.content]
        /\ Started(c, "sendMultipleEmbeds") =>
              /\ Len(calls[c].reqs) = 1
              /\ calls[c].reqs[1].method = "post"
              /\ calls[c].reqs[1].url = webhookUrl
              /\ DOMAIN calls[c].reqs[1].body = {"embeds"}
              /\ Len(calls[c].reqs[1].body.embeds) =
                     Len(calls[c].args.embedArray)
              /\ \A i \in 1..Len(calls[c].args.embedArray) :
                     calls[c].reqs[1].body.embeds[i] =
                         calls[c].args.embedArray[i]
\* Two different embeds were posted, in the caller's order.
C22_Witness ==
    \E c \in Slots :
        /\ Done(c, "sendMultipleEmbeds")
        /\ calls[c].reqs[1].status = "ok"
        /\ calls[c].reqs[1].body.embeds =
               <<[title |-> "t2", color |-> 255], [description |-> "e1"]>>
\* A simple embed was posted.
C22_WitnessSimple ==
    \E c \in Slots :
        /\ Done(c, "sendSimpleEmbed")
        /\ calls[c].reqs[1].status = "ok"
        /\ calls[c].reqs[1].body = [embeds |-> <<[description |-> "bye"]>>]

\* C23: the promise of dm(userId, message) never rejects: it is pending
\* while the channel is being resolved and resolved with undefined from then
\* on, whatever became of the lookup, the creation and the send; a failed
\* send rejects only the promise of sendMessage, which dm does not return.
C23_DmNeverRejects ==
    \A c \in Slots :
        Started(c, "bot.dm") =>
            /\ calls[c].result.kind # "rejected"
            /\ calls[c].pc = "done" => calls[c].result = Resolved(Undefined)
            /\ (Sends(c) # {} /\ LastReq(c).status = "fail") =>
                   /\ calls[c].result = Resolved(Undefined)
                   /\ calls[c].floating = Rejected(LastReq(c).error)
\* The channel was found, the send failed: dm's promise is resolved.
C23_Witness ==
    \E c \in Slots :
        /\ Done(c, "bot.dm")
        /\ LookupFound(c)
        /\ Sends(c) = {2}
        /\ calls[c].reqs[2].status = "fail"
        /\ calls[c].floating.kind = "rejected"
        /\ calls[c].result = Resolved(Undefined)

LookupFailed(c) ==
    \/ calls[c].reqs[1].status = "fail"
    \/ /\ calls[c].reqs[1].status = "ok"
       /\ ScanThrows(calls[c].reqs[1].data, calls[c].args.userId)
LookupError(c) ==
    IF calls[c].reqs[1].status = "fail" THEN calls[c].reqs[1].error
    ELSE TypeErr

\* C25: when the lookup GET inside openOrGetDm(userId) fails, or the scan
\* of the fetched list throws, openOrGetDm rejects with that error, having
\* printed it, and the lookup GET is the only request of the call: no
\* creation POST is issued.
C25_FailedLookupRejects ==
    \A c \in Slots :
        Started(c, "bot.openOrGetDm") /\ LookupFailed(c) =>
            /\ calls[c].pc = "done"
            /\ calls[c].result = Rejected(LookupError(c))
            /\ Len(calls[c].reqs) = 1
            /\ ~IsCreate(calls[c].reqs[1])
            /\ calls[c].log =
                   <<"Error checking DM: " \o ErrText(LookupError(c)),
                     "Error opening DM: " \o ErrText(LookupError(c))>>
\* The GET was answered with an HTTP error.
C25_Witness ==
    \E c \in Slots :
        /\ Done(c, "bot.openOrGetDm")
        /\ calls[c].reqs[1].status = "fail"
        /\ calls[c].result = Rejected(HttpError)
\* The fetched list made the scan throw.
C25_WitnessScan ==
    \E c \in Slots :
        /\ Done(c, "bot.openOrGetDm")
        /\ calls[c].reqs[1].status = "ok"
        /\ ScanThrows(calls[c].reqs[1].data, calls[c].args.userId)
        /\ calls[c].result = Rejected(TypeErr)

\* C26: createWebhook and deleteWebhook never reject: whenever their request
\* has failed, with or without a response from the server, createWebhook
\* resolves with null and deleteWebhook resolves with undefined.
C26_WebhookOpsNeverReject ==
    \A c \in Slots :
        calls[c].op \in {"bot.createWebhook", "bot.deleteWebhook"} =>
            /\ calls[c].result.kind # "rejected"
            /\ calls[c].reqs[1].status = "fail" =>
                   calls[c].result =
                       Resolved(IF calls[c].op = "bot.createWebhook"
                                THEN Null ELSE Undefined)
====
